---- MODULE Spec2Model ----
(***************************************************************************)
(* Model of the Mini Backup Server (src/app.py): the job table JOBS, the   *)
(* persisted file backups.json written through backups.tmp, the            *)
(* APScheduler timer table, the HTTP handlers running on worker threads    *)
(* and the cron firings running on the scheduler's executor threads.       *)
(*                                                                         *)
(* Optional values (Python's Optional[...]) are sets: None is {} and a     *)
(* present value x is {x}.                                                 *)
(***************************************************************************)
EXTENDS Integers, FiniteSets, Sequences, TLC

\* ---------------------------------------------------------------- bounds
NumJobs == 2
NumWorkers == 2
MaxOps == 2
MaxSeqOps == 2
MaxStoreOps == 3

Ids == 1..NumJobs
Workers == 1..NumWorkers
\* One executor thread per job identifier: max_instances=1 (line 111) lets
\* the scheduler run at most one instance of a timer's job at a time.
ExecOf(j) == NumWorkers + j
Execs == {ExecOf(j) : j \in Ids}
Procs == Workers \cup Execs

None == {}
Some(x) == {x}
Get(o) == CHOOSE x \in o : TRUE

\* ------------------------------------------------------------ input sets
ValidCrons == {"0 2 * * *", "* * * * *"}
Crons == ValidCrons \cup {"not a cron"}
Sources == {"/s1"}
Targets == {"/t1"}
FormSources == Sources \cup {"rel"}
\* exit statuses of the external tool: 0, the two benign codes, and another
RcSet == {0, 23, 24, 1}

\* ----------------------------------------------------------------- Job
\* class Job(JobIn): a new record has no history.
NewJob(id, source, target, cron, enabled) ==
    [id |-> id, source |-> source, target |-> target, cron |-> cron,
     enabled |-> enabled, last_run |-> None, last_result |-> None,
     last_change_detected |-> None]

\* JobIn.must_be_abs_path: v.startswith("/")
must_be_abs_path(v) == v \in {"/s1", "/t1"}

\* CronTrigger.from_crontab raises ValueError on an expression it cannot parse
CronParses(c) == c \in ValidCrons

\* ---------------------------------------------------------- JSON values
JNull == [t |-> "null"]
JStr(s) == [t |-> "str", s |-> s]
JBool(b) == [t |-> "bool", b |-> b]

\* json.dump of an Optional[str] / Optional[bool] field of job.dict()
DumpOptStr(o) == IF o = None THEN JNull ELSE JStr(Get(o))
DumpOptBoolNoNull(o) == IF o = None THEN JBool(FALSE) ELSE JBool(Get(o))
DumpOptBool(o) == IF o = None THEN JNull ELSE JBool(Get(o))

\* job.dict() followed by json.dump: one JSON object per job
DumpJob(job) ==
    [id |-> JStr(job.id), source |-> JStr(job.source),
     target |-> JStr(job.target), cron |-> JStr(job.cron),
     enabled |-> JBool(job.enabled),
     last_run |-> DumpOptStr(job.last_run),
     last_result |-> DumpOptStr(job.last_result),
     last_change_detected |-> DumpOptBool(job.last_change_detected)]

\* serializable = {jid: job.dict() for jid, job in jobs.items()}
Serialize(jobs, objs) == [j \in jobs |-> DumpJob(objs[j])]

\* pydantic's reading of an Optional field from JSON
ParseOpt(v) == IF v.t = "null" THEN None
               ELSE IF v.t = "str" THEN Some(v.s) ELSE Some(v.b)

\* Job(**data): the validator of source and target runs again on load
ParseOk(d) == must_be_abs_path(d.source.s) /\ must_be_abs_path(d.target.s)

ParseJob(d) ==
    [id |-> d.id.s, source |-> d.source.s, target |-> d.target.s,
     cron |-> d.cron.s, enabled |-> d.enabled.b,
     last_run |-> ParseOpt(d.last_run),
     last_result |-> ParseOpt(d.last_result),
     last_change_detected |-> ParseOpt(d.last_change_detected)]

\* ---------------------------------------------------------------- files
\* A file is written in two write calls (head, tail); a chunk that was never
\* written since the last truncation is a hole ({}).
NoFile == [exists |-> FALSE, head |-> {}, tail |-> {}]
EmptyFile == [exists |-> TRUE, head |-> {}, tail |-> {}]
FullFile(doc) == [exists |-> TRUE, head |-> {doc}, tail |-> {doc}]
Complete(f) == f.exists /\ f.head # {} /\ f.head = f.tail

\* load_jobs: "absent" file => {}, a document json.load or Job(**data)
\* rejects => "error", else the table
LoadStatus(f) ==
    IF ~f.exists THEN "absent"
    ELSE IF ~Complete(f) THEN "error"
    ELSE IF \E j \in DOMAIN Get(f.head) : ~ParseOk(Get(f.head)[j]) THEN "error"
    ELSE "ok"

load_jobs(f) ==
    IF LoadStatus(f) = "ok"
    THEN [j \in DOMAIN Get(f.head) |-> ParseJob(Get(f.head)[j])]
    ELSE <<>>

\* The in-memory table as a mapping: the Job objects of the identifiers in JOBS
TableOf(jobs, objs) == [j \in jobs |-> objs[j]]

\* ---------------------------------------------------------------- state
VARIABLES
    JOBS,       \* keys of the dict JOBS (line 66)
    obj,        \* the Job objects ever created, by identifier
    timers,     \* the scheduler's job store: a set of <<job id, cron>>
    tmpFile,    \* backups.tmp
    dataFile,   \* backups.json (DATA_FILE)
    th,         \* per thread: position in its handler and its locals
    phase,      \* "off" before the module is imported, "up" while serving
                \* ("seq-off", "seq-up": requests arrive one after the other;
                \* "fail-off", "fail-up": the same, and backups.tmp cannot
                \* always be opened for writing)
    reqs,       \* HTTP requests started
    ticks,      \* cron ticks that came due (a run started, or the tick dropped)
    runs,       \* pipeline runs started (their number is their timestamp)
    logs,       \* log artifacts in LOG_DIR, by the run that created them
    committed   \* the table given to the last Save that returned (storage runs)

vars == <<JOBS, obj, timers, tmpFile, dataFile, th, phase, reqs, ticks, runs,
          logs, committed>>

Idle ==
    [pc |-> "idle", op |-> "none", jid |-> 0, rid |-> 0, det |-> "none",
     result |-> None, snap |-> None, fd |-> "none", after |-> "idle",
     intry |-> FALSE, resp |-> 0, exc |-> FALSE, syncs |-> 0, cron |-> ""]

\* ----------------------------------------------------------- save_jobs
\* open(tmp, "w") creates or truncates backups.tmp; the result is
\* <<backups.tmp, backups.json, the file the descriptor refers to>>.
OpenWInPlace(tmp, data) == <<tmp, EmptyFile, "data">>
OpenW(tmp, data) == <<EmptyFile, data, "tmp">>

\* a write through a descriptor reaches the file its inode is now linked as
WriteChunk(f, chunk, doc) ==
    IF chunk = "head" THEN [f EXCEPT !.head = {doc}] ELSE [f EXCEPT !.tail = {doc}]

\* enter save_jobs; `after` is where the caller continues
CallSave(t, after) == [t EXCEPT !.pc = "save_ser", !.after = after]

\* an exception leaving save_jobs: caught by execute_job's try (line 136)
\* or leaving the handler
Raise(t) ==
    IF t.intry
    THEN [t EXCEPT !.pc = "x_exc_run", !.intry = FALSE, !.snap = None]
    ELSE [t EXCEPT !.pc = "done", !.exc = TRUE, !.resp = 500, !.snap = None]

\* line 60: serialize the table as it is now
SaveSer(p) ==
    /\ th[p].pc = "save_ser"
    /\ th' = [th EXCEPT ![p].pc = "save_open",
                        ![p].snap = Some(Serialize(JOBS, obj))]
    /\ UNCHANGED <<JOBS, obj, timers, tmpFile, dataFile, phase, reqs, ticks, runs,
                   logs, committed>>

\* lines 61-62: open the temporary file for writing
SaveOpen(p) ==
    /\ th[p].pc = "save_open"
    /\ LET o == OpenW(tmpFile, dataFile) IN
        /\ tmpFile' = o[1]
        /\ dataFile' = o[2]
        /\ th' = [th EXCEPT ![p].pc = "save_head", ![p].fd = o[3]]
    /\ UNCHANGED <<JOBS, obj, timers, phase, reqs, ticks, runs, logs, committed>>

WriteThrough(p, chunk) ==
    /\ tmpFile' = IF th[p].fd = "tmp"
                  THEN WriteChunk(tmpFile, chunk, Get(th[p].snap)) ELSE tmpFile
    /\ dataFile' = IF th[p].fd = "data"
                   THEN WriteChunk(dataFile, chunk, Get(th[p].snap)) ELSE dataFile

\* line 63: json.dump, first write call
SaveHead(p) ==
    /\ th[p].pc = "save_head"
    /\ WriteThrough(p, "head")
    /\ th' = [th EXCEPT ![p].pc = "save_tail"]
    /\ UNCHANGED <<JOBS, obj, timers, phase, reqs, ticks, runs, logs, committed>>

\* line 63: json.dump, last write call, and the close that ends the with block
SaveTail(p) ==
    /\ th[p].pc = "save_tail"
    /\ WriteThrough(p, "tail")
    /\ th' = [th EXCEPT ![p].pc = "save_replace", ![p].fd = "none"]
    /\ UNCHANGED <<JOBS, obj, timers, phase, reqs, ticks, runs, logs, committed>>

\* line 64: tmp.replace(DATA_FILE); FileNotFoundError when backups.tmp is gone
SaveReplace(p) ==
    /\ th[p].pc = "save_replace"
    /\ IF tmpFile.exists
       THEN /\ dataFile' = tmpFile
            /\ tmpFile' = NoFile
            /\ th' = [q \in Procs |->
                        IF q = p THEN [th[p] EXCEPT !.pc = th[p].after, !.snap = None]
                        ELSE IF th[q].fd = "tmp" THEN [th[q] EXCEPT !.fd = "data"]
                        ELSE IF th[q].fd = "data" THEN [th[q] EXCEPT !.fd = "orphan"]
                        ELSE th[q]]
       ELSE /\ th' = [th EXCEPT ![p] = Raise(th[p])]
            /\ UNCHANGED <<tmpFile, dataFile>>
    /\ UNCHANGED <<JOBS, obj, timers, phase, reqs, ticks, runs, logs, committed>>

Save(p) == SaveSer(p) \/ SaveOpen(p) \/ SaveHead(p) \/ SaveTail(p) \/ SaveReplace(p)

\* ------------------------------------------------- storage runs (Job Store)
\* The tables a Save can be given: jobs with and without run history.
StoreTriples ==
    {<<TRUE, None, None, None>>, <<TRUE, Some(1), Some("OK"), Some(TRUE)>>,
     <<FALSE, Some(1), Some("skip"), Some(FALSE)>>,
     <<FALSE, Some(2), Some("FEHLER: e"), None>>,
     <<TRUE, None, Some("FEHLER beim Planen"), None>>}

StoreJobs(j) ==
    {[NewJob(j, "/s1", "/t1", "0 2 * * *", t[1]) EXCEPT
        !.last_run = t[2], !.last_result = t[3], !.last_change_detected = t[4]] :
     t \in StoreTriples}

StoreInit ==
    /\ JOBS = {}
    /\ obj = <<>>
    /\ timers = {}
    /\ tmpFile = NoFile
    /\ dataFile = NoFile
    /\ th = [p \in Procs |-> Idle]
    /\ phase = "store"
    /\ reqs = 0
    /\ ticks = 0
    /\ runs = 0
    /\ logs = {}
    /\ committed = None

\* one mutation of the table: a job added, replaced or removed
StoreMutate ==
    /\ phase = "store"
    /\ th[1].pc = "idle"
    /\ reqs < MaxStoreOps
    /\ reqs' = reqs + 1
    /\ \/ \E j \in Ids : \E job \in StoreJobs(j) :
            /\ JOBS' = JOBS \cup {j}
            /\ obj' = [i \in DOMAIN obj \cup {j} |-> IF i = j THEN job ELSE obj[i]]
       \/ \E j \in JOBS :
            /\ JOBS' = JOBS \ {j}
            /\ obj' = obj
    /\ UNCHANGED <<timers, tmpFile, dataFile, th, phase, ticks, runs, logs, committed>>

\* save_jobs(JOBS) called by the only thread
StoreSave ==
    /\ phase = "store"
    /\ th[1].pc = "idle"
    /\ th' = [th EXCEPT ![1] = CallSave([Idle EXCEPT !.op = "save"], "done")]
    /\ UNCHANGED <<JOBS, obj, timers, tmpFile, dataFile, phase, reqs, ticks, runs,
                   logs, committed>>

StoreSaveStep ==
    /\ phase = "store"
    /\ Save(1)

\* save_jobs returned: its table is the committed one
StoreSaved ==
    /\ phase = "store"
    /\ th[1].pc = "done"
    /\ committed' = Some(TableOf(JOBS, obj))
    /\ th' = [th EXCEPT ![1] = Idle]
    /\ UNCHANGED <<JOBS, obj, timers, tmpFile, dataFile, phase, reqs, ticks, runs, logs>>

\* the process is killed inside save_jobs, before line 64
StoreCrash ==
    /\ phase = "store"
    /\ th[1].pc \in {"save_open", "save_head", "save_tail", "save_replace"}
    /\ th' = [th EXCEPT ![1] = Idle]
    /\ phase' = "crashed"
    /\ UNCHANGED <<JOBS, obj, timers, tmpFile, dataFile, reqs, ticks, runs, logs, committed>>

\* line 66 at the next process start: JOBS = load_jobs()
StoreLoad ==
    /\ phase \in {"store", "crashed"}
    /\ th[1].pc = "idle"
    /\ LoadStatus(dataFile) # "error"
    /\ JOBS' = DOMAIN load_jobs(dataFile)
    /\ obj' = load_jobs(dataFile)
    /\ phase' = "store"
    /\ UNCHANGED <<timers, tmpFile, dataFile, th, reqs, ticks, runs, logs, committed>>

StoreNext ==
    \/ StoreMutate
    \/ StoreSave
    \/ StoreSaveStep
    \/ StoreSaved
    \/ StoreCrash
    \/ StoreLoad

SpecStore == StoreInit /\ [][StoreNext]_vars

CommittedTable == IF committed = None THEN <<>> ELSE Get(committed)

\* C7: Save followed by Load reconstructs the table Save was given, absent
\* optional fields staying absent, and with no persisted file Load yields
\* the empty table.
C7_RoundTrip ==
    /\ (phase = "store" /\ th[1].pc = "done") =>
          /\ LoadStatus(dataFile) = "ok"
          /\ load_jobs(dataFile) = TableOf(JOBS, obj)
    /\ ~dataFile.exists =>
          /\ LoadStatus(dataFile) = "absent"
          /\ load_jobs(dataFile) = <<>>

C7_Witness ==
    /\ phase = "store"
    /\ th[1].pc = "done"
    /\ Cardinality(JOBS) = 2
    /\ \E j \in JOBS : obj[j].last_change_detected = None /\ obj[j].last_run # None
    /\ \E j \in JOBS : obj[j].last_result = None

\* C8: a crash inside one Save, before the rename of line 64, leaves
\* backups.json holding the previously committed table: Load returns it.
C8_CrashKeepsCommitted ==
    (phase = "crashed"
       \/ th[1].pc \in {"save_open", "save_head", "save_tail", "save_replace"}) =>
        /\ LoadStatus(dataFile) # "error"
        /\ load_jobs(dataFile) = CommittedTable

C8_Witness ==
    /\ phase = "crashed"
    /\ committed # None
    /\ CommittedTable # <<>>
    /\ TableOf(JOBS, obj) # CommittedTable
    /\ tmpFile.exists /\ ~Complete(tmpFile)

\* ------------------------------------------------------------ scheduler
\* scheduler.add_job(..., id=job.id, replace_existing=True)
AddJobNoReplace(ts, id, cron) == ts \cup {<<id, cron>>}
AddJob(ts, id, cron) == {t \in ts : t[1] # id} \cup {<<id, cron>>}

\* unschedule_job: scheduler.remove_job, the lookup error swallowed
unschedule_jobKeeps(ts, id) == ts
unschedule_job(ts, id) == {t \in ts : t[1] # id}

TimersOf(j) == {t \in timers : t[1] = j}

\* the startup loop (lines 143-148) over the jobs of S
RECURSIVE StartupTimers(_, _)
StartupTimers(S, objs) ==
    IF S = {} THEN {}
    ELSE LET j == CHOOSE x \in S : TRUE
             rest == StartupTimers(S \ {j}, objs)
         IN IF objs[j].enabled /\ CronParses(objs[j].cron)
            THEN AddJob(rest, j, objs[j].cron) ELSE rest

StartupObj(job) ==
    IF job.enabled /\ ~CronParses(job.cron)
    THEN [job EXCEPT !.last_result = Some("FEHLER beim Planen")] ELSE job

\* ------------------------------------------------------------- pipeline
\* rsync_has_changes: raises outside the accepted statuses, else reports
\* whether the probe printed anything
rsync_has_changesAcceptsAll(rc, out) == IF out # "" THEN "changed" ELSE "same"
rsync_has_changes(rc, out) ==
    IF rc \notin {0, 23, 24} THEN "raise"
    ELSE IF out # "" THEN "changed" ELSE "same"

\* run_rsync's classification of the exit status
run_rsync(rc) == IF rc \notin {0, 23, 24} THEN "FEHLER rc" ELSE "OK"

SkipMarker == "skip"
ErrorSummary == "FEHLER: e"

\* ------------------------------------------------------ persisted tables
InitTables ==
    {<<>>}
    \cup {(1 :> NewJob(1, "/s1", "/t1", c, TRUE)) : c \in {"0 2 * * *", "not a cron"}}
    \cup {[j \in Ids |-> NewJob(j, "/s1", "/t1", "0 2 * * *", j = 1)]}

InitWith(ph) ==
    /\ JOBS = {}
    /\ obj = <<>>
    /\ timers = {}
    /\ tmpFile = NoFile
    /\ \E T \in InitTables :
          dataFile = IF T = <<>> THEN NoFile
                     ELSE FullFile(Serialize(DOMAIN T, T))
    /\ th = [p \in Procs |-> Idle]
    /\ phase = ph
    /\ reqs = 0
    /\ ticks = 0
    /\ runs = 0
    /\ logs = {}
    /\ committed = None

Init == InitWith("off")

\* module import: JOBS = load_jobs() (line 66) and the re-schedule loop
\* (lines 143-148)
Startup ==
    /\ phase \in {"off", "seq-off", "fail-off"}
    /\ LoadStatus(dataFile) # "error"
    /\ LET T == load_jobs(dataFile) IN
        /\ JOBS' = DOMAIN T
        /\ obj' = [j \in DOMAIN T |-> StartupObj(T[j])]
        /\ timers' = StartupTimers(DOMAIN T, T)
    /\ phase' = CASE phase = "off" -> "up"
                   [] phase = "seq-off" -> "seq-up"
                   [] phase = "fail-off" -> "fail-up"
    /\ UNCHANGED <<tmpFile, dataFile, th, reqs, ticks, runs, logs, committed>>

Up == phase \in {"up", "seq-up", "fail-up"}
OneAtATime == phase \in {"seq-up", "fail-up"}
Budget == IF OneAtATime THEN MaxSeqOps ELSE MaxOps
\* no handler and no firing is in progress
Quiescent == \A p \in Procs : th[p].pc \in {"idle", "done"}
\* a new request or firing may start now
MayStart ==
    /\ Up
    /\ reqs + ticks < Budget
    /\ OneAtATime => \A p \in Procs : th[p].pc = "idle"

Th(op, j, pc, resp) ==
    [Idle EXCEPT !.op = op, !.jid = j, !.pc = pc, !.resp = resp]

\* a free worker thread picks up a request (the threads of the pool are
\* interchangeable: the lowest free one takes it)
Begin(p, t) ==
    /\ MayStart
    /\ p \in Workers
    /\ th[p].pc = "idle"
    /\ \A q \in Workers : q < p => th[q].pc # "idle"
    /\ reqs' = reqs + 1
    /\ th' = [th EXCEPT ![p] = t]

Finish(t, resp) == [t EXCEPT !.pc = "done", !.resp = resp]

\* the response is sent, the thread is free again
Return(p) ==
    /\ Up
    /\ th[p].pc = "done"
    /\ th' = [th EXCEPT ![p] = Idle]
    /\ UNCHANGED <<JOBS, obj, timers, tmpFile, dataFile, phase, reqs, ticks, runs,
                   logs, committed>>

memVars == <<JOBS, obj>>
fsVars == <<tmpFile, dataFile>>
runVars == <<ticks, runs, logs, committed>>

\* job.<f> = v on the Job object of identifier j
SetFieldOfAll(j, f, v) == [i \in DOMAIN obj |-> [obj[i] EXCEPT ![f] = v]]
SetField(j, f, v) == [obj EXCEPT ![j] = [obj[j] EXCEPT ![f] = v]]

\* --------------------------------------------------------- create_job
\* lines 217-233: validate the form (400 on a relative or missing source),
\* build the Job, insert it, enter save_jobs (line 234). The handler is
\* a coroutine with no await after the form is read: one create at a time.
CreateBegin(p) ==
    /\ \A q \in Workers : th[q].op # "create"
    /\ Ids \ DOMAIN obj # {}
    /\ \E source \in FormSources, cron \in Crons, exists \in BOOLEAN :
        LET id == CHOOSE i \in Ids \ DOMAIN obj : \A k \in Ids \ DOMAIN obj : i <= k
        IN IF ~must_be_abs_path(source) \/ ~exists
           THEN /\ Begin(p, Th("create", 0, "done", 400))
                /\ UNCHANGED memVars
           ELSE /\ Begin(p, CallSave([Th("create", id, "idle", 0) EXCEPT
                                          !.cron = cron], "c_sched"))
                /\ JOBS' = JOBS \cup {id}
                /\ obj' = [i \in DOMAIN obj \cup {id} |->
                             IF i = id THEN NewJob(id, source, "/t1", cron, TRUE)
                             ELSE obj[i]]
    /\ UNCHANGED <<timers, fsVars, phase, runVars>>

\* lines 235-241: schedule_job; on failure record it, save, answer 400
CreateSchedule(p) ==
    /\ th[p].pc = "c_sched"
    /\ LET j == th[p].jid IN
        IF CronParses(obj[j].cron)
        THEN /\ timers' = AddJob(timers, j, obj[j].cron)
             /\ th' = [th EXCEPT ![p] = Finish(th[p], 303)]
             /\ UNCHANGED memVars
        ELSE /\ obj' = SetField(j, "last_result", Some("FEHLER beim Planen"))
             /\ th' = [th EXCEPT ![p] = CallSave([th[p] EXCEPT !.resp = 400], "done")]
             /\ UNCHANGED <<JOBS, timers>>
    /\ UNCHANGED <<fsVars, phase, reqs, runVars>>

\* --------------------------------------------------------- toggle_job
\* lines 245-248: look the job up, flip enabled
ToggleBegin(p) ==
    /\ \E j \in Ids :
        IF j \notin JOBS
        THEN /\ Begin(p, Th("toggle", j, "done", 404))
             /\ UNCHANGED memVars
        ELSE /\ Begin(p, Th("toggle", j, "t_branch", 0))
             /\ obj' = SetField(j, "enabled", ~obj[j].enabled)
             /\ UNCHANGED JOBS
    /\ UNCHANGED <<timers, fsVars, phase, runVars>>

\* line 249: if job.enabled
ToggleBranch(p) ==
    /\ th[p].pc = "t_branch"
    /\ th' = [th EXCEPT ![p].pc =
                IF obj[th[p].jid].enabled THEN "t_sched" ELSE "t_unsched"]
    /\ UNCHANGED <<memVars, timers, fsVars, phase, reqs, runVars>>

\* line 250: schedule_job(job); an unparsable cron leaves the handler as an error
ToggleSchedule(p) ==
    /\ th[p].pc = "t_sched"
    /\ LET j == th[p].jid IN
        IF CronParses(obj[j].cron)
        THEN /\ timers' = AddJob(timers, j, obj[j].cron)
             /\ th' = [th EXCEPT ![p] = CallSave([th[p] EXCEPT !.resp = 303], "done")]
        ELSE /\ th' = [th EXCEPT ![p] = Raise(th[p])]
             /\ UNCHANGED timers
    /\ UNCHANGED <<memVars, fsVars, phase, reqs, runVars>>

\* lines 252-253
ToggleUnschedule(p) ==
    /\ th[p].pc = "t_unsched"
    /\ timers' = unschedule_job(timers, th[p].jid)
    /\ th' = [th EXCEPT ![p] = CallSave([th[p] EXCEPT !.resp = 303], "done")]
    /\ UNCHANGED <<memVars, fsVars, phase, reqs, runVars>>

\* --------------------------------------------------------- delete_job
\* lines 258-260: JOBS.pop
DeleteBegin(p) ==
    /\ \E j \in Ids :
        IF j \notin JOBS
        THEN /\ Begin(p, Th("delete", j, "done", 404))
             /\ UNCHANGED memVars
        ELSE /\ Begin(p, Th("delete", j, "d_unsched", 0))
             /\ JOBS' = JOBS \ {j}
             /\ UNCHANGED obj
    /\ UNCHANGED <<timers, fsVars, phase, runVars>>

\* lines 261-262
DeleteUnschedule(p) ==
    /\ th[p].pc = "d_unsched"
    /\ timers' = unschedule_job(timers, th[p].jid)
    /\ th' = [th EXCEPT ![p] = CallSave([th[p] EXCEPT !.resp = 303], "done")]
    /\ UNCHANGED <<memVars, fsVars, phase, reqs, runVars>>

\* --------------------------------------------------------- update_job
\* lines 275-282: look the job up, assign the body's fields, enter save_jobs
UpdateBegin(p) ==
    /\ \E j \in Ids, source \in Sources, cron \in Crons, enabled \in BOOLEAN :
        IF j \notin JOBS
        THEN /\ Begin(p, Th("update", j, "done", 404))
             /\ UNCHANGED memVars
        ELSE /\ Begin(p, CallSave(Th("update", j, "idle", 0), "u_branch"))
             /\ obj' = [obj EXCEPT ![j] = [obj[j] EXCEPT !.source = source,
                           !.target = "/t1", !.cron = cron, !.enabled = enabled]]
             /\ UNCHANGED JOBS
    /\ UNCHANGED <<timers, fsVars, phase, runVars>>

\* line 283: if job.enabled
UpdateBranch(p) ==
    /\ th[p].pc = "u_branch"
    /\ th' = [th EXCEPT ![p].pc =
                IF obj[th[p].jid].enabled THEN "u_sched" ELSE "u_unsched"]
    /\ UNCHANGED <<memVars, timers, fsVars, phase, reqs, runVars>>

\* line 284
UpdateSchedule(p) ==
    /\ th[p].pc = "u_sched"
    /\ LET j == th[p].jid IN
        IF CronParses(obj[j].cron)
        THEN /\ timers' = AddJob(timers, j, obj[j].cron)
             /\ th' = [th EXCEPT ![p] = Finish(th[p], 200)]
        ELSE /\ th' = [th EXCEPT ![p] = Raise(th[p])]
             /\ UNCHANGED timers
    /\ UNCHANGED <<memVars, fsVars, phase, reqs, runVars>>

\* line 286
UpdateUnschedule(p) ==
    /\ th[p].pc = "u_unsched"
    /\ timers' = unschedule_job(timers, th[p].jid)
    /\ th' = [th EXCEPT ![p] = Finish(th[p], 200)]
    /\ UNCHANGED <<memVars, fsVars, phase, reqs, runVars>>

\* -------------------------------------------------------- execute_job
\* lines 123-125: a missing or disabled job is left alone; otherwise the
\* pipeline starts (its number stands for the time datetime.now() returns)
SkipsJobIfMissing(present, enabled) == ~present
\* line 124: if not job or not job.enabled
SkipsJob(present, enabled) == ~present \/ ~enabled

ExecCheck(p) ==
    /\ th[p].pc = "x_check"
    /\ LET j == th[p].jid IN
        IF SkipsJob(j \in JOBS, obj[j].enabled)
        THEN /\ th' = [th EXCEPT ![p] = Finish(th[p], th[p].resp)]
             /\ UNCHANGED runs
        ELSE /\ runs' = runs + 1
             /\ th' = [th EXCEPT ![p].pc = "x_detect", ![p].rid = runs + 1,
                                 ![p].intry = TRUE]
    /\ UNCHANGED <<memVars, timers, fsVars, phase, reqs, ticks, logs, committed>>

\* line 127: the preview probe, with the exit status and output it gives
ExecDetect(p) ==
    /\ th[p].pc = "x_detect"
    /\ \E rc \in RcSet, out \in {"", ">f+++ file"} :
        LET d == rsync_has_changes(rc, out) IN
        th' = [th EXCEPT ![p].det = d,
                         ![p].pc = CASE d = "raise" -> "x_exc_run"
                                     [] d = "changed" -> "x_sync"
                                     [] d = "same" -> "x_w_run",
                         ![p].intry = (d # "raise"),
                         ![p].result = IF d = "same" THEN Some(SkipMarker) ELSE None]
    /\ UNCHANGED <<memVars, timers, fsVars, phase, reqs, runVars>>

\* line 129: run_rsync; opening the log artifact can fail (line 92)
ExecSync(p) ==
    /\ th[p].pc = "x_sync"
    /\ \E rc \in RcSet, logok \in BOOLEAN :
        IF logok
        THEN /\ logs' = logs \cup {th[p].rid}
             /\ th' = [th EXCEPT ![p].pc = "x_w_run", ![p].syncs = @ + 1,
                                 ![p].result = Some(run_rsync(rc))]
        ELSE /\ logs' = logs
             /\ th' = [th EXCEPT ![p].pc = "x_exc_run", ![p].syncs = @ + 1,
                                 ![p].intry = FALSE]
    /\ UNCHANGED <<memVars, timers, fsVars, phase, reqs, ticks, runs, committed>>

\* lines 132, 133, 134: three assignments to the Job object
ExecWriteRun(p) ==
    /\ th[p].pc = "x_w_run"
    /\ obj' = SetField(th[p].jid, "last_run", Some(th[p].rid))
    /\ th' = [th EXCEPT ![p].pc = "x_w_res"]
    /\ UNCHANGED <<JOBS, timers, fsVars, phase, reqs, runVars>>

ExecWriteResult(p) ==
    /\ th[p].pc = "x_w_res"
    /\ obj' = SetField(th[p].jid, "last_result", th[p].result)
    /\ th' = [th EXCEPT ![p].pc = "x_w_lcd"]
    /\ UNCHANGED <<JOBS, timers, fsVars, phase, reqs, runVars>>

\* line 134, then save_jobs (line 135) inside the try
ExecWriteChanged(p) ==
    /\ th[p].pc = "x_w_lcd"
    /\ obj' = SetField(th[p].jid, "last_change_detected", Some(th[p].det = "changed"))
    /\ th' = [th EXCEPT ![p] = CallSave(th[p], "done")]
    /\ UNCHANGED <<JOBS, timers, fsVars, phase, reqs, runVars>>

\* lines 137, 138, 139: the except branch
ExecExceptRun(p) ==
    /\ th[p].pc = "x_exc_run"
    /\ obj' = SetField(th[p].jid, "last_run", Some(th[p].rid))
    /\ th' = [th EXCEPT ![p].pc = "x_exc_res"]
    /\ UNCHANGED <<JOBS, timers, fsVars, phase, reqs, runVars>>

ExecExceptResult(p) ==
    /\ th[p].pc = "x_exc_res"
    /\ obj' = SetField(th[p].jid, "last_result", Some(ErrorSummary))
    /\ th' = [th EXCEPT ![p].pc = "x_exc_lcd"]
    /\ UNCHANGED <<JOBS, timers, fsVars, phase, reqs, runVars>>

\* line 139, then save_jobs (line 140) outside any try
ExecExceptChanged(p) ==
    /\ th[p].pc = "x_exc_lcd"
    /\ obj' = SetField(th[p].jid, "last_change_detected", None)
    /\ th' = [th EXCEPT ![p] = CallSave(th[p], "done")]
    /\ UNCHANGED <<JOBS, timers, fsVars, phase, reqs, runVars>>

\* ------------------------------------------------------------- run_now
\* lines 267-271: 404, or execute_job and then the redirect
RunNowBegin(p) ==
    /\ \E j \in Ids :
        IF j \notin JOBS
        THEN Begin(p, Th("run_now", j, "done", 404))
        ELSE Begin(p, Th("run_now", j, "x_check", 303))
    /\ UNCHANGED <<memVars, timers, fsVars, phase, runVars>>

\* --------------------------------------------------------- cron firing
\* max_instances=1 (line 111): the executor accepts a run of a timer's job
\* only while fewer than max_instances instances of it are running
max_instances == 1
Running(j) == IF th[ExecOf(j)].pc = "idle" THEN 0 ELSE 1
CanSubmitAlways(running) == TRUE
CanSubmit(running) == running < max_instances

\* The timer of job j comes due and the executor runs execute_job(j).
Fire(j) ==
    /\ MayStart
    /\ TimersOf(j) # {}
    /\ CanSubmit(Running(j))
    /\ ticks' = ticks + 1
    /\ th' = [th EXCEPT ![ExecOf(j)] = Th("cron", j, "x_check", 0)]
    /\ UNCHANGED <<memVars, timers, fsVars, phase, reqs, runs, logs, committed>>

\* The timer of job j comes due while an instance is still running: the tick
\* is dropped (coalesce=True, line 112, keeps nothing pending either).
DropTick(j) ==
    /\ Up
    /\ reqs + ticks < Budget
    /\ TimersOf(j) # {}
    /\ ~CanSubmit(Running(j))
    /\ ticks' = ticks + 1
    /\ UNCHANGED <<memVars, timers, fsVars, phase, reqs, th, runs, logs, committed>>

\* ----------------------------------------------------------------- Next
Next ==
    \/ Startup
    \/ \E p \in Workers : CreateBegin(p)
    \/ \E p \in Workers : CreateSchedule(p)
    \/ \E p \in Workers : ToggleBegin(p)
    \/ \E p \in Workers : ToggleBranch(p)
    \/ \E p \in Workers : ToggleSchedule(p)
    \/ \E p \in Workers : ToggleUnschedule(p)
    \/ \E p \in Workers : DeleteBegin(p)
    \/ \E p \in Workers : DeleteUnschedule(p)
    \/ \E p \in Workers : UpdateBegin(p)
    \/ \E p \in Workers : UpdateBranch(p)
    \/ \E p \in Workers : UpdateSchedule(p)
    \/ \E p \in Workers : UpdateUnschedule(p)
    \/ \E p \in Workers : RunNowBegin(p)
    \/ \E j \in Ids : Fire(j)
    \/ \E j \in Ids : DropTick(j)
    \/ \E p \in Procs : ExecCheck(p)
    \/ \E p \in Procs : ExecDetect(p)
    \/ \E p \in Procs : ExecSync(p)
    \/ \E p \in Procs : ExecWriteRun(p)
    \/ \E p \in Procs : ExecWriteResult(p)
    \/ \E p \in Procs : ExecWriteChanged(p)
    \/ \E p \in Procs : ExecExceptRun(p)
    \/ \E p \in Procs : ExecExceptResult(p)
    \/ \E p \in Procs : ExecExceptChanged(p)
    \/ \E p \in Procs : SaveSer(p)
    \/ \E p \in Procs : SaveOpen(p)
    \/ \E p \in Procs : SaveHead(p)
    \/ \E p \in Procs : SaveTail(p)
    \/ \E p \in Procs : SaveReplace(p)
    \/ \E p \in Procs : Return(p)

Spec == Init /\ [][Next]_vars

\* the same program with its requests and firings arriving one at a time
SeqInit == InitWith("seq-off")
SpecSeq == SeqInit /\ [][Next]_vars

\* lines 61-62 when the data directory refuses the write (disk full,
\* permission denied): open(tmp, "w") raises OSError
SaveOpenFails(p) ==
    /\ phase = "fail-up"
    /\ th[p].pc = "save_open"
    /\ th' = [th EXCEPT ![p] = Raise(th[p])]
    /\ UNCHANGED <<JOBS, obj, timers, tmpFile, dataFile, phase, reqs, ticks, runs,
                   logs, committed>>

\* requests and firings one at a time, on a data directory that may refuse
\* any save
FailInit == InitWith("fail-off")
FailNext == Next \/ \E p \in Procs : SaveOpenFails(p)
SpecFail == FailInit /\ [][FailNext]_vars

\* --------------------------------------------------------------- claims
\* execute_job past its enabled check and not yet returned
InPipeline(p) == th[p].rid # 0 /\ th[p].pc \notin {"idle", "done"}
\* a pipeline run that has ended and is about to return
RunEnded(p) == th[p].rid # 0 /\ th[p].pc = "done"
\* a create, toggle, update or delete of job j that has not returned
Mutating(j) ==
    \E p \in Workers :
        /\ th[p].jid = j
        /\ th[p].op \in {"create", "toggle", "update", "delete"}
        /\ th[p].pc \notin {"idle", "done"}
Deleted == DOMAIN obj \ JOBS

\* C1: for any job, at most one pipeline execution is in flight at any time,
\* whatever the interleaving of cron firings and RunNow requests.
C1_OneRunPerJob ==
    \A j \in Ids : Cardinality({p \in Procs : InPipeline(p) /\ th[p].jid = j}) <= 1

\* C2: a job with enabled=false has no armed timer whenever no mutating
\* request on it is still running, under any interleaving of requests.
C2_DisabledNoTimer ==
    \A j \in JOBS : (~obj[j].enabled /\ ~Mutating(j)) => TimersOf(j) = {}

C4_NoChangeSkips ==
    \A p \in Procs : (RunEnded(p) /\ th[p].det = "same") =>
        /\ th[p].syncs = 0
        /\ th[p].rid \notin logs
        /\ obj[th[p].jid].last_change_detected = Some(FALSE)
        /\ obj[th[p].jid].last_result = Some(SkipMarker)

\* C5: when the detector reports changes, the run invokes run_rsync exactly
\* once and ends with last_change_detected=true, whatever the sync's outcome.
C5_ChangeSyncsOnce ==
    \A p \in Procs : (RunEnded(p) /\ th[p].det = "changed") =>
        /\ th[p].syncs = 1
        /\ obj[th[p].jid].last_change_detected = Some(TRUE)

\* C6: when the detector fails, the run does not invoke run_rsync, sets
\* last_result to an error summary and last_change_detected to absent,
\* persists the table and returns without an error reaching its caller.
C6_DetectionErrorRecorded ==
    \A p \in Procs : (RunEnded(p) /\ th[p].det = "raise") =>
        /\ th[p].syncs = 0
        /\ obj[th[p].jid].last_result = Some(ErrorSummary)
        /\ obj[th[p].jid].last_change_detected = None
        /\ ~th[p].exc

\* C9: while Saves race, backups.json is at every moment a complete
\* serialization of a table some Save was given, and no Save fails because of
\* another (its rename finds backups.tmp).
C9_RacingSavesConsistent ==
    /\ dataFile.exists => Complete(dataFile)
    /\ \A p \in Procs : th[p].pc = "save_replace" => tmpFile.exists

\* C10: a reader of the in-memory table sees last_run, last_result and
\* last_change_detected only as a triple written by one execution attempt.
TripleOfOneAttempt(job) ==
    \/ job.last_run = None /\ job.last_result = None
         /\ job.last_change_detected = None
    \/ job.last_run # None /\ job.last_result \in {Some("OK"), Some("FEHLER rc")}
         /\ job.last_change_detected = Some(TRUE)
    \/ job.last_run # None /\ job.last_result = Some(SkipMarker)
         /\ job.last_change_detected = Some(FALSE)
    \/ job.last_run # None /\ job.last_result = Some(ErrorSummary)
         /\ job.last_change_detected = None

C10_ConsistentTriple == \A j \in JOBS : TripleOfOneAttempt(obj[j])

\* what load_jobs would return now
Persisted == load_jobs(dataFile)

\* C11: a create whose cron expression cannot be parsed is answered with an
\* error and arms no timer for the new job; the record (as long as no other
\* request deleted it or gave it another expression) stays in the table and
\* in the persisted file, unscheduled.
C11_BadCronCreateKeepsRecord ==
    \A p \in Workers :
        (th[p].op = "create" /\ th[p].pc = "done" /\ th[p].jid # 0
            /\ ~CronParses(th[p].cron)
            /\ th[p].jid \in JOBS /\ obj[th[p].jid].cron = th[p].cron) =>
            /\ th[p].resp >= 400
            /\ TimersOf(th[p].jid) = {}
            /\ LoadStatus(dataFile) = "ok"
            /\ th[p].jid \in DOMAIN Persisted

\* thread p calls schedule_job (lines 236, 250, 284) with an expression that
\* parses: a successful Arm
ArmStep(p) ==
    /\ th[p].pc \in {"c_sched", "t_sched", "u_sched"}
    /\ th'[p].pc # th[p].pc
    /\ CronParses(obj[th[p].jid].cron)

\* C12: re-arming a job leaves exactly one timer for its identifier, never
\* two, and that timer carries the cron expression of the latest successful
\* Arm: every Arm leaves the single timer of its job with the expression it
\* armed, and a timer appears or changes only by an Arm (or the startup loop).
C12_RearmOneTimer ==
    [][/\ \A j \in Ids : Cardinality(TimersOf(j)') <= 1
       /\ \A p \in Workers :
             ArmStep(p) =>
                TimersOf(th[p].jid)' = {<<th[p].jid, obj[th[p].jid].cron>>}
       /\ \A j \in Ids :
             (TimersOf(j)' # TimersOf(j) /\ TimersOf(j)' # {}) =>
                \/ ~Up /\ TimersOf(j)' = {<<j, obj'[j].cron>>}
                \/ \E p \in Workers : ArmStep(p) /\ th[p].jid = j]_vars

\* an update of the job loaded at startup (armed then) re-armed it with
\* another expression
C12_Witness ==
    /\ reqs = 1
    /\ \E p \in Workers : /\ th[p].op = "update" /\ th[p].pc = "done"
                          /\ th[p].resp = 200 /\ th[p].jid = 1
    /\ TimersOf(1) = {<<1, "* * * * *">>}

\* C13: delete_job cancels the timer before the record disappears: at no
\* moment of a delete is the identifier absent from the table while a timer
\* for it is still armed.
C13_TimerCancelledBeforeRemoval ==
    \A p \in Workers :
        (th[p].op = "delete" /\ th[p].pc \notin {"idle", "done"}
            /\ th[p].jid \notin JOBS) => TimersOf(th[p].jid) = {}

\* request q has disabled (toggle) or deleted job j and is about to return
DisabledBy(q, j) ==
    /\ th[q].op = "toggle" /\ th[q].pc = "done" /\ th[q].resp = 303
    /\ th[q].jid = j /\ j \in JOBS /\ ~obj[j].enabled
DeletedBy(q, j) ==
    /\ th[q].op = "delete" /\ th[q].pc = "done" /\ th[q].resp = 303
    /\ th[q].jid = j /\ j \notin JOBS

\* C14: when a job is disabled or deleted while a run of it is in flight, the
\* run completes and writes its outcome, no timer stays armed for the job,
\* and once both have ended the persisted table shows the job disabled
\* (respectively does not contain it).
C14_DisableDuringRun ==
    \A p \in Procs, q \in Workers :
        LET j == th[p].jid IN
        (Quiescent /\ RunEnded(p) /\ (DisabledBy(q, j) \/ DeletedBy(q, j))) =>
            /\ obj[j].last_run = Some(th[p].rid)
            /\ TimersOf(j) = {}
            /\ LoadStatus(dataFile) # "error"
            /\ DisabledBy(q, j) => (j \in DOMAIN Persisted /\ ~Persisted[j].enabled)
            /\ DeletedBy(q, j) => j \notin DOMAIN Persisted

\* C15: cron ticks of a job are coalesced: a run is started by a timer only
\* on its own tick and only while no run of that job started by a timer is
\* active; a tick that arrives during such a run starts nothing and leaves
\* nothing pending.
C15_TicksCoalesced ==
    [][\A j \in Ids :
         LET e == ExecOf(j) IN
         /\ (th'[e].pc = "x_check" /\ th'[e] # th[e]) =>
                (th[e].pc = "idle" /\ ticks' = ticks + 1)
         /\ (ticks' # ticks /\ th[e].pc # "idle") =>
                (th'[e] = th[e] /\ runs' = runs)]_vars

\* two ticks of job 1 came due and only the first started a run
C15_Witness ==
    /\ ticks = 2 /\ reqs = 0 /\ runs = 1
    /\ th[ExecOf(1)].op = "cron" /\ th[ExecOf(1)].pc = "done"
    /\ th[ExecOf(1)].rid = 1

\* C16: when schedule_job fails on an unparsable expression during an update
\* or a toggle-to-enabled, no timer armed from the previous expression
\* remains: the expression of an armed timer equals the cron field of its job
\* record (whenever no request on that job is still running).
C16_TimerMatchesRecord ==
    \A t \in timers :
        (t[1] \in JOBS /\ ~Mutating(t[1])) => obj[t[1]].cron = t[2]

\* C17: every mutation of a job record is followed by a full-table save:
\* whenever no operation is in progress, the persisted table equals the
\* in-memory job table.
C17_PersistedEqualsMemory ==
    (Up /\ Quiescent) =>
        /\ LoadStatus(dataFile) # "error"
        /\ Persisted = TableOf(JOBS, obj)

RunTriple(job) == <<job.last_run, job.last_result, job.last_change_detected>>

\* C18: when save_jobs fails during the pipeline run of a background firing,
\* the in-memory table is left equal to the last persisted snapshot: the
\* job's last_run, last_result and last_change_detected are those persisted.
C18_FailedSaveKeepsSnapshot ==
    \A j \in Ids :
        (phase = "fail-up" /\ th[ExecOf(j)].op = "cron"
            /\ th[ExecOf(j)].pc = "done" /\ th[ExecOf(j)].exc
            /\ j \in JOBS /\ j \in DOMAIN Persisted) =>
            RunTriple(obj[j]) = RunTriple(Persisted[j])

\* C19: execute_job for an identifier missing from the table or for a job
\* with enabled=false, from a firing or from RunNow, is a silent no-op: no
\* detector, no sync, no field of any job changed, no save, nothing raised,
\* and RunNow still answers with its redirect.
C19_SkipIsNoOp ==
    [][\A p \in Procs :
         LET j == th[p].jid IN
         (th[p].pc = "x_check" /\ th'[p].pc # "x_check"
             /\ (j \notin JOBS \/ ~obj[j].enabled)) =>
            /\ th'[p].pc = "done"
            /\ th'[p].rid = 0 /\ th'[p].det = "none" /\ th'[p].syncs = 0
            /\ ~th'[p].exc /\ th'[p].resp = th[p].resp
            /\ UNCHANGED <<JOBS, obj, timers, tmpFile, dataFile, runs, logs>>]_vars

\* RunNow on a disabled job has returned its redirect without a run
C19_Witness ==
    \E p \in Workers :
        /\ th[p].op = "run_now" /\ th[p].pc = "done" /\ th[p].resp = 303
        /\ th[p].rid = 0 /\ runs = 0
        /\ th[p].jid \in JOBS /\ ~obj[th[p].jid].enabled

ConfigOf(job) == <<job.id, job.source, job.target, job.cron, job.enabled>>

\* C20: a pipeline run for job j, whatever its outcome, changes in memory
\* only last_run, last_result and last_change_detected of j: every step of
\* the run leaves j's id, source, target, cron and enabled, every other job,
\* the membership of the table and the timer table as they were.
C20_RunFrame ==
    [][\A p \in Procs :
         (InPipeline(p) /\ th'[p].pc # th[p].pc) =>
            /\ JOBS' = JOBS
            /\ timers' = timers
            /\ DOMAIN obj' = DOMAIN obj
            /\ ConfigOf(obj'[th[p].jid]) = ConfigOf(obj[th[p].jid])
            /\ \A i \in DOMAIN obj : i # th[p].jid => obj'[i] = obj[i]]_vars

\* a run of one of two jobs has ended with its outcome written, the other
\* job untouched
C20_Witness ==
    \E p \in Procs :
        /\ RunEnded(p) /\ ~th[p].exc
        /\ JOBS = Ids
        /\ obj[th[p].jid].last_run = Some(th[p].rid)
        /\ \A i \in JOBS \ {th[p].jid} : RunTriple(obj[i]) = <<None, None, None>>

====
